---- MODULE Spec2Model ----
(***************************************************************************)
(* Verification model of pumas (graelo/pumas): the powermetrics frame      *)
(* assembler (Buffer), the reconciliation of per-core activity             *)
(* (Metrics::set_cpus_active_ratio), the rolling history series (Signal)   *)
(* and the sampling loop / event loop of monitor.rs.                       *)
(*                                                                         *)
(* Nine specifications share the module's variables; each one drives one   *)
(* component and leaves the variables of the others unchanged:             *)
(*   SpecBuffer   modules/powermetrics/buffer.rs                           *)
(*   SpecSignal   signal.rs                                                *)
(*   SpecMetrics  metrics.rs (set_cpus_active_ratio)                       *)
(*   SpecFrom     metrics.rs (From<plist_parsing::Metrics>)                *)
(*   SpecFreq     metrics.rs (CpuMetrics::freq_ratio)                      *)
(*   SpecHistory  app.rs (the history store)                               *)
(*   SpecTabs     app.rs (TabsState under on_left / on_right)              *)
(*   SpecRender   app.rs (on_metrics) and ui (the history lookups)         *)
(*   Spec         monitor.rs (threads, channel, consumer)                  *)
(***************************************************************************)
EXTENDS Integers, Sequences, FiniteSets, TLC

VARIABLES
    \* ---- Buffer (modules/powermetrics/buffer.rs) ----
    buffer,     \* Buffer.buffer: Vec<String>
    doc,        \* history: the lines handed to the Buffer since the last finalize, as given
    text,       \* value returned by the last finalize(), NoText when none is at hand
    bphase,     \* "lines": accumulating; "last": append_last_line done; "final": finalized
    nfinal,     \* history: number of finalize() calls made on this Buffer
    \* ---- Signal (signal.rs) ----
    signal,     \* Signal<f32>: peak, max, points (a VecDeque<u64>)
    capacity,   \* history: the capacity given to Signal::with_capacity
    pushed,     \* history: every value given to push, in order
    slice,      \* value returned by the last as_slice_last_n, with its argument
    \* ---- Metrics (metrics.rs) ----
    metrics,          \* the decoded Metrics handed to set_cpus_active_ratio
    sysinfo_metrics,  \* the secondary per-core list, &[sysinfo::CpuMetrics]
    result,           \* what set_cpus_active_ratio returned, NoResult before the call
    \* ---- metrics.rs: impl From<plist_parsing::Metrics> for Metrics ----
    pm_doc,           \* the plist_parsing::Metrics handed to from(): elapsed_ns, processor
    consumption,      \* the PowerConsumption of the Metrics made from pm_doc, NoResult before
    \* ---- metrics.rs: CpuMetrics::freq_ratio ----
    fr_cpu,           \* the CpuMetrics freq_ratio() is called on
    fr_ratio,         \* the f64 freq_ratio() returned, NoResult before the call
    \* ---- app.rs: the history store (App::history, App::history_size) ----
    h_store,          \* App.history: HashMap<String, Signal<f32>>
    h_size,           \* App.history_size
    h_first,          \* history: for each key recorded, the max given first and last, the number of records
    \* ---- app.rs: TabsState under on_left / on_right ----
    tab_app,          \* the App whose tabs are moved
    tab_calls,        \* the calls made so far: "left" / "right"
    tab_indexes,      \* the selected index after each call
    \* ---- app.rs / ui: the App under on_metrics, as the renderer reads it ----
    rnd_app,          \* the App handed to ui::draw
    rnd_n,            \* samples handled so far
    \* ---- monitor.rs: threads, channel, consumer ----
    mode,       \* "ui" (main_ui_loop) or "json" (main_exporter_loop)
    sm_pc,      \* stream_metrics: "spawn", "streaming", "after_loop", "returned", "panicked"
    child,      \* the powermetrics process: "none", "running", "exited", "killed"
    kills,      \* history: number of cmd.kill() calls made
    docs,       \* history: number of end markers read
    sm_err,     \* history: why the line loop ended: "none", "eof", "read", "decode", "merge", "send"
    sm_line,          \* the line stream_metrics read last, NoText before the first
    sm_trace,         \* the calls stream_metrics made for that line, in order
    keys_pc,    \* the stdin thread: "running" or "ended"
    nkeys,      \* history: number of keys read from stdin
    chan,       \* the mpsc channel: events sent and not yet received
    rx_alive,   \* the Receiver has not been dropped
    ui_pc,      \* the consumer loop: "running", "quit" (Ok) or "failed" (recv error)
    app,        \* App: should_quit, tabs.index, metrics
    sent,       \* history: every event enqueued, in order
    handled     \* history: every event the consumer handled, in order

bufVars == <<buffer, doc, text, bphase, nfinal>>
sigVars == <<signal, capacity, pushed, slice>>
metVars == <<metrics, sysinfo_metrics, result>>
decVars == <<pm_doc, consumption>>
frqVars == <<fr_cpu, fr_ratio>>
hstVars == <<h_store, h_size, h_first>>
tabVars == <<tab_app, tab_calls, tab_indexes>>
rndVars == <<rnd_app, rnd_n>>
monVars == <<sm_line, sm_trace, mode, sm_pc, child, kills, docs, sm_err, keys_pc, nkeys, chan, rx_alive, ui_pc, app, sent, handled>>

----------------------------------------------------------------------------
(* Generic helpers *)

Max(a, b) == IF a >= b THEN a ELSE b
Min(a, b) == IF a <= b THEN a ELSE b

\* The elements of a sequence.
Range(s) == { s[i] : i \in 1..Len(s) }

\* s without its i-th element (Vec::remove).
RemoveAt(s, i) == SubSeq(s, 1, i - 1) \o SubSeq(s, i + 1, Len(s))

\* s.starts_with(p) on strings seen as sequences of characters.
StartsWith(s, p) == Len(s) >= Len(p) /\ SubSeq(s, 1, Len(p)) = p

----------------------------------------------------------------------------
(* Buffer: lines are sequences of characters. *)

NUL == "0"
NL  == "\n"

\* "<key>idle_ratio</key>", the prefix of the defective line (two characters here).
IDLE_RATIO_KEY == <<"k", "i">>

\* "</plist>", the end marker.
PLIST_END == <<"e">>

NoText == <<"none">>

\* An ordinary line of a document.
PlainLine == <<"a">>

\* Lines with something to them: leading NULs, the defective line with its
\* value, the bare key, a NUL in front of the key, the key inside a line.
SpecialLines ==
    { <<NUL, "a">>,
      <<NUL, NUL, "a">>,
      IDLE_RATIO_KEY,
      IDLE_RATIO_KEY \o <<"r">>,
      <<NUL>> \o IDLE_RATIO_KEY,
      <<"a">> \o IDLE_RATIO_KEY }

BodyLines == {PlainLine} \cup SpecialLines

\* Bounds of the Buffer specification: lines per document (end marker
\* included) and lines per document that are not PlainLine.
MaxLines == 12
MaxSpecial == 2

\* Bound of the Buffer specification: documents finalized on one Buffer.
MaxFinalized == 2

\* Number of lines of the scan in append_last_line: .rev().take(10).
REPAIR_WINDOW == 10

RECURSIVE trim_start_nul(_)
\* line.trim_start_matches(char::from(0)): every leading NUL goes.
trim_start_nul(line) ==
    IF Len(line) > 0 /\ Head(line) = NUL THEN trim_start_nul(Tail(line)) ELSE line

\* Buffer::append_line
append_line(buf, line) ==
    IF StartsWith(line, <<NUL>>)
    THEN Append(buf, trim_start_nul(line))
    ELSE Append(buf, line)

rev_position_whole_buffer(buf) ==
    LET n == Len(buf)
        hits == { p \in 0..(n - 1) : StartsWith(buf[n - p], IDLE_RATIO_KEY) }
    IN IF hits = {} THEN -1
       ELSE CHOOSE p \in hits : \A q \in hits : p <= q

rev_position_contains(buf) ==
    LET n == Len(buf)
        has(l) == \E k \in 0..(Len(l) - Len(IDLE_RATIO_KEY)) :
                      SubSeq(l, k + 1, k + Len(IDLE_RATIO_KEY)) = IDLE_RATIO_KEY
        hits == { p \in 0..(Min(REPAIR_WINDOW, n) - 1) : has(buf[n - p]) }
    IN IF hits = {} THEN -1
       ELSE CHOOSE p \in hits : \A q \in hits : p <= q

\* .iter().rev().take(10).position(starts_with key): the 0-based offset from
\* the end of the nearest match, -1 for None.
rev_position(buf) ==
    LET n == Len(buf)
        hits == { p \in 0..(Min(REPAIR_WINDOW, n) - 1) :
                      StartsWith(buf[n - p], IDLE_RATIO_KEY) }
    IN IF hits = {} THEN -1
       ELSE CHOOSE p \in hits : \A q \in hits : p <= q

append_last_line_removes_all(buf, line) ==
    LET b == Append(buf, line)
        keep == { i \in 1..Len(b) :
                     ~(i > Len(b) - REPAIR_WINDOW /\ StartsWith(b[i], IDLE_RATIO_KEY)) }
        F[i \in 0..Len(b)] ==
            IF i = 0 THEN <<>>
            ELSE IF i \in keep THEN Append(F[i - 1], b[i]) ELSE F[i - 1]
    IN F[Len(b)]

append_last_line_off_by_one(buf, line) ==
    LET b == Append(buf, line)
        pos == rev_position(b)
    IN IF pos >= 0 /\ Len(b) - pos - 1 >= 1 THEN RemoveAt(b, Len(b) - pos - 1) ELSE b

\* Buffer::append_last_line. Vec::remove(len - pos - 1) is 0-based; the
\* sequence index is one more.
append_last_line(buf, line) ==
    LET b == Append(buf, line)
        pos == rev_position(b)
    IN IF pos >= 0 THEN RemoveAt(b, Len(b) - pos) ELSE b

RECURSIVE join(_)
\* self.buffer.join("\n")
join(lines) ==
    IF Len(lines) = 0 THEN <<>>
    ELSE IF Len(lines) = 1 THEN lines[1]
    ELSE lines[1] \o <<NL>> \o join(Tail(lines))

finalize_no_clear(buf) == [plist |-> join(buf), buffer |-> buf]

\* Buffer::finalize: the joined text and the cleared buffer.
finalize(buf) == [plist |-> join(buf), buffer |-> <<>>]

NumSpecial(lines) == Cardinality({ i \in 1..Len(lines) : lines[i] \in SpecialLines })

\* stream_metrics hands every line that is not the end marker to append_line.
BufAppendLine ==
    /\ bphase \in {"lines", "final"}
    /\ \E line \in BodyLines :
        LET d == IF bphase = "final" THEN <<>> ELSE doc IN
        /\ Len(d) + 1 < MaxLines
        /\ NumSpecial(Append(d, line)) <= MaxSpecial
        /\ buffer' = append_line(buffer, line)
        /\ doc' = Append(d, line)
    /\ text' = NoText
    /\ bphase' = "lines"
    /\ UNCHANGED nfinal
    /\ UNCHANGED <<sigVars, metVars, decVars, frqVars, hstVars, tabVars, rndVars, monVars>>

\* The end marker goes to append_last_line.
BufAppendLastLine ==
    /\ bphase \in {"lines", "final"}
    /\ buffer' = append_last_line(buffer, PLIST_END)
    /\ doc' = Append(IF bphase = "final" THEN <<>> ELSE doc, PLIST_END)
    /\ text' = NoText
    /\ bphase' = "last"
    /\ UNCHANGED nfinal
    /\ UNCHANGED <<sigVars, metVars, decVars, frqVars, hstVars, tabVars, rndVars, monVars>>

\* finalize() directly follows append_last_line (monitor.rs:360-361).
BufFinalize ==
    /\ bphase = "last"
    /\ nfinal < MaxFinalized
    /\ nfinal' = nfinal + 1
    /\ text' = finalize(buffer).plist
    /\ buffer' = finalize(buffer).buffer
    /\ bphase' = "final"
    /\ UNCHANGED doc
    /\ UNCHANGED <<sigVars, metVars, decVars, frqVars, hstVars, tabVars, rndVars, monVars>>

BufferNext == BufAppendLine \/ BufAppendLastLine \/ BufFinalize

----------------------------------------------------------------------------
(* Signal<f32>.  An f32 is a record: NaN, or a number counted in units of   *)
(* 1/DEN so that fractions and negative values exist.  Points are u64.      *)

DEN == 2

NaN == [nan |-> TRUE, v |-> 0]
F32(n) == [nan |-> FALSE, v |-> n]

\* T::zero()
ZERO == F32(0)

\* a > b on f32: false as soon as one side is NaN.
Gt(a, b) == ~a.nan /\ ~b.nan /\ a.v > b.v

\* value.to_u64().unwrap_or(0): the fraction is cut off; NaN and values at or
\* below -1 give None, values in (-1, 0) truncate to 0.
to_u64_or_0(x) == IF x.nan \/ x.v < 0 THEN 0 ELSE x.v \div DEN

\* The values pushed: -1.0, 0.5, 1.0, 2.0 and NaN.
Values == { F32(-2), F32(1), F32(2), F32(4), NaN }

\* Bounds of the Signal specification.
MaxCapacity == 3
MaxPushes == 5
MaxN == 4

\* The declared maximum given at construction (100.0).
NominalMax == F32(100 * DEN)

NoSlice == [n |-> -1, out |-> <<>>]
PANIC == <<-1>>

\* VecDeque::with_capacity(capacity): the buffer holds exactly `capacity` slots.
VecDeque_with_capacity(cap) == [cap |-> cap, head |-> 0, items |-> <<>>]

\* VecDeque::pop_front: a no-op on an empty deque.
pop_front(dq) ==
    IF Len(dq.items) = 0 THEN dq
    ELSE [dq EXCEPT !.head = (dq.head + 1) % dq.cap, !.items = Tail(dq.items)]

\* VecDeque::push_back: a full deque grows first (amortized growth, at least
\* 4 slots for 8-byte elements); the element goes to slot (head + len) % cap.
push_back(dq, x) ==
    LET cap == IF Len(dq.items) = dq.cap
               THEN Max(Max(2 * dq.cap, dq.cap + 1), 4)
               ELSE dq.cap
    IN [dq EXCEPT !.cap = cap, !.items = Append(dq.items, x)]

\* The elements wrap around the end of the buffer.
is_contiguous(dq) == dq.head + Len(dq.items) <= dq.cap

make_contiguous_noop(dq) == dq

\* VecDeque::make_contiguous: the elements keep their order; the head moves
\* to slot 0, to the former tail length, or to the number of free slots.
make_contiguous(dq) ==
    IF is_contiguous(dq) THEN dq
    ELSE LET len == Len(dq.items)
             free == dq.cap - len
             head_len == dq.cap - dq.head
             tail_len == len - head_len
         IN IF free >= head_len THEN [dq EXCEPT !.head = 0]
            ELSE IF free >= tail_len THEN [dq EXCEPT !.head = tail_len]
            ELSE IF head_len > tail_len THEN [dq EXCEPT !.head = free]
            ELSE [dq EXCEPT !.head = 0]

\* VecDeque::as_slices().0: the elements stored from the head to the end of
\* the buffer.
as_slices_0(dq) == SubSeq(dq.items, 1, Min(Len(dq.items), dq.cap - dq.head))

\* Signal::with_capacity
with_capacity(cap, max) ==
    [peak |-> ZERO, max |-> max, points |-> VecDeque_with_capacity(cap)]

push_peak_last(sig, value) ==
    LET p1 == IF Len(sig.points.items) = sig.points.cap
              THEN pop_front(sig.points) ELSE sig.points
    IN [sig EXCEPT !.peak = value,
                   !.points = make_contiguous(push_back(p1, to_u64_or_0(value)))]

\* Signal::push
push(sig, value) ==
    LET peak == IF Gt(sig.peak, value) THEN sig.peak ELSE value
        p1 == IF Len(sig.points.items) = sig.points.cap
              THEN pop_front(sig.points) ELSE sig.points
        p2 == push_back(p1, to_u64_or_0(value))
    IN [sig EXCEPT !.peak = peak, !.points = make_contiguous(p2)]

\* Signal::as_slice
as_slice(sig) == as_slices_0(sig.points)

\* Signal::as_slice_last_n; slicing past the end of the slice panics.
as_slice_last_n(sig, n) ==
    LET len == Len(sig.points.items)
        s == as_slice(sig)
    IN IF len < n THEN s
       ELSE IF len - n > Len(s) THEN PANIC
       ELSE SubSeq(s, len - n + 1, Len(s))

SigPush ==
    /\ Len(pushed) < MaxPushes
    /\ \E value \in Values :
        /\ signal' = push(signal, value)
        /\ pushed' = Append(pushed, value)
    /\ slice' = NoSlice
    /\ UNCHANGED capacity
    /\ UNCHANGED <<bufVars, metVars, decVars, frqVars, hstVars, tabVars, rndVars, monVars>>

SigLastN ==
    /\ \E n \in 0..MaxN : slice' = [n |-> n, out |-> as_slice_last_n(signal, n)]
    /\ UNCHANGED <<signal, capacity, pushed>>
    /\ UNCHANGED <<bufVars, metVars, decVars, frqVars, hstVars, tabVars, rndVars, monVars>>

SignalNext == SigPush \/ SigLastN

----------------------------------------------------------------------------
(* Metrics::set_cpus_active_ratio.  Ratios are whole numbers (per cent).    *)

\* Bounds of the Metrics specification: cores per source, clusters per kind.
MaxCpus == 3
MaxClusters == 2

\* Core identifiers (u16) and the ratios of the two sources.
CpuIds == {0, 1}
PmRatios == {7}
SysRatios == {1, 2}

\* metrics::CpuMetrics; dvfm_states lists the frequencies of the DVFM states.
CpuMetrics(id, ratio) ==
    [id |-> id, freq_mhz |-> 1000 + id, active_ratio |-> ratio, dvfm_states |-> <<600, 2000>>]

\* Sequences over S of length at most n.
SeqsUpTo(S, n) == UNION { [1..k -> S] : k \in 0..n }

RECURSIVE SumLens(_)
SumLens(clusters) ==
    IF Len(clusters) = 0 THEN 0
    ELSE Len(Head(clusters).cpus) + SumLens(Tail(clusters))

\* Metrics::num_cpus
num_cpus(m) == SumLens(m.e_clusters) + SumLens(m.p_clusters)

RECURSIVE Chunks(_, _, _, _)
\* cpus[lo..hi] cut into consecutive clusters, a cut after each position of cuts.
Chunks(cpus, lo, hi, cuts) ==
    IF lo > hi THEN <<>>
    ELSE LET ends == { c \in cuts : c >= lo /\ c < hi } \cup {hi}
             to == CHOOSE c \in ends : \A d \in ends : c <= d
         IN <<SubSeq(cpus, lo, to)>> \o Chunks(cpus, to + 1, hi, cuts)

\* metrics::ClusterMetrics, named "E1-Cluster", "P2-Cluster", ...
Clusters(kind, chunks) ==
    [i \in 1..Len(chunks) |->
        [name |-> kind \o ToString(i) \o "-Cluster", freq_mhz |-> 1000,
         dvfm_states |-> <<600, 2000>>, cpus |-> chunks[i]]]

\* What the reconciliation has no business with: GPU, power, thermal pressure.
Rest == [gpu |-> [freq_mhz |-> 400, active_ratio |-> 3, dvfm_states |-> <<300, 1000>>],
         consumption |-> [cpu_w |-> 1, gpu_w |-> 2, ane_w |-> 0, package_w |-> 4],
         thermal_pressure |-> "Nominal"]

\* The decoded Metrics (impl From<plist_parsing::Metrics>): the cores of cpus
\* in order, the first ne of them in efficiency clusters, the others in
\* performance clusters.
DecodedMetrics(cpus, ne, cutsE, cutsP) ==
    [e_clusters |-> Clusters("E", Chunks(cpus, 1, ne, cutsE)),
     p_clusters |-> Clusters("P", Chunks(cpus, ne + 1, Len(cpus), cutsP)),
     rest |-> Rest]

\* sysinfo::CpuMetrics lists (SystemState::latest_metrics).
SysinfoCpuLists ==
    SeqsUpTo({ [id |-> id, active_ratio |-> r] : id \in CpuIds, r \in SysRatios }, MaxCpus)

NoResult == [tag |-> "none"]

\* Error::MisalignedCpuId(format!(..., a, b))
MisalignedCpuId(what, a, b) == [what |-> what, a |-> a, b |-> b]

\* iterator.next().unwrap() on an exhausted iterator.
UNWRAP_PANIC == [what |-> "panic", a |-> 0, b |-> 0]

RECURSIVE merge_cpus_no_early_return(_, _, _)
merge_cpus_no_early_return(cpus, updates, i) ==
    IF Len(cpus) = 0 THEN [err |-> NoResult, cpus |-> <<>>, i |-> i]
    ELSE IF i + 1 > Len(updates) THEN [err |-> UNWRAP_PANIC, cpus |-> cpus, i |-> i]
    ELSE LET cpu == Head(cpus)
             update == updates[i + 1]
             rest == merge_cpus_no_early_return(Tail(cpus), updates, i + 1)
             new == IF cpu.id # update.id THEN cpu
                    ELSE [cpu EXCEPT !.active_ratio = update.active_ratio]
         IN [err |-> IF cpu.id # update.id
                     THEN MisalignedCpuId("id", cpu.id, update.id) ELSE rest.err,
             cpus |-> <<new>> \o rest.cpus,
             i |-> rest.i]

RECURSIVE merge_cpus_wrong_field(_, _, _)
merge_cpus_wrong_field(cpus, updates, i) ==
    IF Len(cpus) = 0 THEN [err |-> NoResult, cpus |-> <<>>, i |-> i]
    ELSE IF i + 1 > Len(updates) THEN [err |-> UNWRAP_PANIC, cpus |-> cpus, i |-> i]
    ELSE LET cpu == Head(cpus)
             update == updates[i + 1]
         IN IF cpu.id # update.id
            THEN [err |-> MisalignedCpuId("id", cpu.id, update.id), cpus |-> cpus, i |-> i + 1]
            ELSE LET rest == merge_cpus_wrong_field(Tail(cpus), updates, i + 1)
                 IN [err |-> rest.err,
                     cpus |-> <<[cpu EXCEPT !.freq_mhz = update.active_ratio]>> \o rest.cpus,
                     i |-> rest.i]

RECURSIVE merge_cpus(_, _, _)
\* The inner loop: `for cpu in &mut cluster.cpus`.  `i` is the number of
\* elements the iterator has yielded.  Returns the cores as they are when the
\* loop ends or returns early, the error (if any) and the iterator position.
merge_cpus(cpus, updates, i) ==
    IF Len(cpus) = 0 THEN [err |-> NoResult, cpus |-> <<>>, i |-> i]
    ELSE IF i + 1 > Len(updates) THEN [err |-> UNWRAP_PANIC, cpus |-> cpus, i |-> i]
    ELSE LET cpu == Head(cpus)
             update == updates[i + 1]
         IN IF cpu.id # update.id
            THEN [err |-> MisalignedCpuId("id", cpu.id, update.id), cpus |-> cpus, i |-> i + 1]
            ELSE LET rest == merge_cpus(Tail(cpus), updates, i + 1)
                 IN [err |-> rest.err,
                     cpus |-> <<[cpu EXCEPT !.active_ratio = update.active_ratio]>> \o rest.cpus,
                     i |-> rest.i]

RECURSIVE merge_clusters(_, _, _)
\* The outer loop: `for cluster in &mut self.e_clusters` (or p_clusters).
merge_clusters(clusters, updates, i) ==
    IF Len(clusters) = 0 THEN [err |-> NoResult, clusters |-> <<>>, i |-> i]
    ELSE LET c == Head(clusters)
             inner == merge_cpus(c.cpus, updates, i)
         IN IF inner.err # NoResult
            THEN [err |-> inner.err,
                  clusters |-> <<[c EXCEPT !.cpus = inner.cpus]>> \o Tail(clusters),
                  i |-> inner.i]
            ELSE LET rest == merge_clusters(Tail(clusters), updates, inner.i)
                 IN [err |-> rest.err,
                     clusters |-> <<[c EXCEPT !.cpus = inner.cpus]>> \o rest.clusters,
                     i |-> rest.i]

\* The walk of set_cpus_active_ratio: efficiency clusters, then performance
\* clusters, one iterator over the updates.
merge_all(self, updates) ==
    LET e == merge_clusters(self.e_clusters, updates, 0)
        self1 == [self EXCEPT !.e_clusters = e.clusters]
    IN IF e.err # NoResult
       THEN [tag |-> "Err", err |-> e.err, self |-> self1, value |-> NoResult]
       ELSE LET p == merge_clusters(self.p_clusters, updates, e.i)
                self2 == [self1 EXCEPT !.p_clusters = p.clusters]
            IN IF p.err # NoResult
               THEN [tag |-> "Err", err |-> p.err, self |-> self2, value |-> NoResult]
               ELSE [tag |-> "Ok", err |-> NoResult, self |-> self2, value |-> self2]

set_cpus_active_ratio_no_count_check(self, updates) == merge_all(self, updates)

set_cpus_active_ratio_p_restarts(self, updates) ==
    IF num_cpus(self) # Len(updates)
    THEN [tag |-> "Err",
          err |-> MisalignedCpuId("count", num_cpus(self), Len(updates)),
          self |-> self, value |-> NoResult]
    ELSE LET e == merge_clusters(self.e_clusters, updates, 0)
             self1 == [self EXCEPT !.e_clusters = e.clusters]
         IN IF e.err # NoResult
            THEN [tag |-> "Err", err |-> e.err, self |-> self1, value |-> NoResult]
            ELSE LET p == merge_clusters(self.p_clusters, updates, 0)
                     self2 == [self1 EXCEPT !.p_clusters = p.clusters]
                 IN IF p.err # NoResult
                    THEN [tag |-> "Err", err |-> p.err, self |-> self2, value |-> NoResult]
                    ELSE [tag |-> "Ok", err |-> NoResult, self |-> self2, value |-> self2]

\* Metrics::set_cpus_active_ratio(mut self, sysinfo_metrics).  `self` is the
\* local value as it is when the function returns (dropped on Err); `value`
\* is what the caller gets inside Ok.
set_cpus_active_ratio(self, updates) ==
    IF num_cpus(self) # Len(updates)
    THEN [tag |-> "Err",
          err |-> MisalignedCpuId("count", num_cpus(self), Len(updates)),
          self |-> self, value |-> NoResult]
    ELSE merge_all(self, updates)

SetCpusActiveRatio ==
    /\ result = NoResult
    /\ result' = set_cpus_active_ratio(metrics, sysinfo_metrics)
    /\ UNCHANGED <<metrics, sysinfo_metrics>>
    /\ UNCHANGED <<bufVars, sigVars, decVars, frqVars, hstVars, tabVars, rndVars, monVars>>

MetricsNext == SetCpusActiveRatio

----------------------------------------------------------------------------
(* metrics.rs: impl From<plist_parsing::Metrics> for Metrics, the power      *)
(* figures.  Powers are counted in milliwatts (1/1000 W).                    *)

\* elapsed_ns of a document: half a second, one second.
ElapsedNs == {500000000, 1000000000}

\* cpu_energy, gpu_energy, ane_energy in mJ and combined_power in mW.
EnergiesMj == {0, 100, 250}
PackagesMw == {0, 350, 700}

\* A plist_parsing::Metrics as far as the power figures go.
Plist(ns, cpu, gpu, ane, pkg) ==
    [elapsed_ns |-> ns,
     processor |-> [cpu_mj |-> cpu, gpu_mj |-> gpu, ane_mj |-> ane, package_mw |-> pkg]]

IdlePlist == Plist(1000000000, 0, 0, 0, 0)

\* (mj as f64 / interval_sec / 1e3) as f32 with interval_sec = elapsed_ns / 1e9,
\* in milliwatts: mJ per millisecond, times 1000.
energy_to_power(mj, elapsed_ns) == (mj * 1000) \div (elapsed_ns \div 1000000)

power_consumption_package_summed(value) ==
    LET cpu_w == energy_to_power(value.processor.cpu_mj, value.elapsed_ns)
        gpu_w == energy_to_power(value.processor.gpu_mj, value.elapsed_ns)
        ane_w == energy_to_power(value.processor.ane_mj, value.elapsed_ns)
    IN [cpu_w |-> cpu_w, gpu_w |-> gpu_w, ane_w |-> ane_w,
        package_w |-> cpu_w + gpu_w + ane_w]

\* The PowerConsumption built by from(): package_w = package_mw / 1e3.
power_consumption(value) ==
    [cpu_w |-> energy_to_power(value.processor.cpu_mj, value.elapsed_ns),
     gpu_w |-> energy_to_power(value.processor.gpu_mj, value.elapsed_ns),
     ane_w |-> energy_to_power(value.processor.ane_mj, value.elapsed_ns),
     package_w |-> value.processor.package_mw]

\* Metrics::from(pm_doc)
FromPlist ==
    /\ consumption = NoResult
    /\ consumption' = power_consumption(pm_doc)
    /\ UNCHANGED pm_doc
    /\ UNCHANGED <<bufVars, sigVars, metVars, frqVars, hstVars, tabVars, rndVars, monVars>>

FromNext == FromPlist

----------------------------------------------------------------------------
(* metrics.rs: CpuMetrics::freq_ratio.  An f64 quotient is a record: NaN,    *)
(* +infinity, or the fraction num / den.                                    *)

\* Bound of the frequency specification: DVFM states of a core.
MaxStates == 2

\* DvfmState::freq_mhz (u16) and CpuMetrics::freq_mhz values.
StateFreqs == {0, 600, 2000}
CurrentFreqs == {0, 300, 600, 1000, 2000, 2500}

\* a / b in f64 for a >= 0 and b >= 0: 0.0 / 0.0 is NaN, a / 0.0 is +infinity.
f64_div(a, b) ==
    IF b = 0 THEN [nan |-> a = 0, inf |-> a # 0, num |-> 0, den |-> 1]
    ELSE [nan |-> FALSE, inf |-> FALSE, num |-> a, den |-> b]

\* CpuMetrics::max_frequency, CpuMetrics::min_frequency on a non-empty list.
max_frequency(cpu) ==
    CHOOSE f \in Range(cpu.dvfm_states) : \A g \in Range(cpu.dvfm_states) : f >= g
min_frequency(cpu) ==
    CHOOSE f \in Range(cpu.dvfm_states) : \A g \in Range(cpu.dvfm_states) : f <= g

\* CpuMetrics::freq_ratio; .max().unwrap() panics on an empty list.
freq_ratio(cpu) ==
    IF Len(cpu.dvfm_states) = 0 THEN UNWRAP_PANIC
    ELSE f64_div(Max(cpu.freq_mhz - min_frequency(cpu), 0), max_frequency(cpu))

\* cpu.freq_ratio()
FreqRatio ==
    /\ fr_ratio = NoResult
    /\ fr_ratio' = freq_ratio(fr_cpu)
    /\ UNCHANGED fr_cpu
    /\ UNCHANGED <<bufVars, sigVars, metVars, decVars, hstVars, tabVars, rndVars, monVars>>

FreqNext == FreqRatio

----------------------------------------------------------------------------
(* monitor.rs: stream_metrics, the stdin thread, the channel, the consumer. *)

\* Bounds of the monitor specification: documents read, keys read, lines
\* of one document before its end marker.
MaxDocs == 2
MaxKeys == 2
MaxDocLines == 1

\* termion::event::Key values read from stdin.
Keys == { <<"Esc">>, <<"Char", "x">>, <<"Char", "a">> }

\* Event::Input(key), Event::Metrics(metrics); `doc` numbers the document
\* the sample was made from.
EventInput(key) == [kind |-> "Input", key |-> key, doc |-> 0, metrics |-> NoResult]
EventMetrics(m, n) == [kind |-> "Metrics", key |-> <<>>, doc |-> n, metrics |-> m]

\* The lines powermetrics writes that are not the end marker.
StreamLines == { PlainLine }

\* What the plist decoder makes of a document: one efficiency cluster with
\* core 0 and two performance clusters with cores 1 and 2.
StreamDecoded ==
    DecodedMetrics(<<CpuMetrics(0, 7), CpuMetrics(1, 7), CpuMetrics(2, 7)>>, 1, {}, {2})

\* sysinfo::MemoryMetrics of a snapshot.
StreamMemory == [ram_total |-> 16, ram_used |-> 8, swap_total |-> 2, swap_used |-> 1]

\* sysinfo snapshots: aligned, one core short, a wrong identifier.
StreamSysinfo ==
    { [cpu_metrics |-> <<[id |-> 0, active_ratio |-> 1], [id |-> 1, active_ratio |-> 2],
                         [id |-> 2, active_ratio |-> 1]>>,
       memory_metrics |-> StreamMemory],
      [cpu_metrics |-> <<[id |-> 0, active_ratio |-> 1], [id |-> 1, active_ratio |-> 2]>>,
       memory_metrics |-> StreamMemory],
      [cpu_metrics |-> <<[id |-> 0, active_ratio |-> 1], [id |-> 0, active_ratio |-> 2],
                         [id |-> 2, active_ratio |-> 1]>>,
       memory_metrics |-> StreamMemory] }

\* Metrics::merge_sysinfo_metrics: the per-core ratios are reconciled as in
\* set_cpus_active_ratio and the memory figures are copied.
merge_sysinfo_metrics(pm, sys) ==
    LET r == set_cpus_active_ratio(pm, sys.cpu_metrics)
    IN IF r.tag = "Ok"
       THEN [r EXCEPT !.value = [e_clusters |-> r.value.e_clusters,
                                 p_clusters |-> r.value.p_clusters,
                                 rest |-> r.value.rest,
                                 memory |-> sys.memory_metrics]]
       ELSE r

\* mpsc::Sender::send: the event is queued behind the others.
send(ch, ev) == Append(ch, ev)

recv_newest(ch) == [ev |-> ch[Len(ch)], rest |-> SubSeq(ch, 1, Len(ch) - 1)]

\* mpsc::Receiver::recv on a non-empty channel: the oldest event.
recv(ch) == [ev |-> Head(ch), rest |-> Tail(ch)]

\* TabsState::next, TabsState::previous over the four titles.
TabsNext(i) == (i + 1) % 4

TabsPrevious_no_wrap(i) == IF i > 0 THEN i - 1 ELSE 0

TabsPrevious(i) == IF i > 0 THEN i - 1 ELSE 4 - 1

on_key_any_char(a, c) == [a EXCEPT !.should_quit = TRUE]

\* App::on_key
on_key(a, c) == IF c \in {"q", "x"} THEN [a EXCEPT !.should_quit = TRUE] ELSE a

\* App::on_left, App::on_right
on_left(a) == [a EXCEPT !.tabs_index = TabsPrevious(a.tabs_index)]
on_right(a) == [a EXCEPT !.tabs_index = TabsNext(a.tabs_index)]

\* --history-size of the run.
HistorySize == 2

\* App::new: no sample yet, the first of the four tabs selected.
AppNew ==
    [should_quit |-> FALSE, tabs_index |-> 0, metrics |-> NoResult,
     history |-> <<>>, history_size |-> HistorySize]

\* Bound of the tabs specification: calls of on_left / on_right.
MaxTabCalls == 6

\* Key::Left | Key::BackTab => app.on_left()
TabLeft ==
    /\ Len(tab_calls) < MaxTabCalls
    /\ tab_app' = on_left(tab_app)
    /\ tab_calls' = Append(tab_calls, "left")
    /\ tab_indexes' = Append(tab_indexes, on_left(tab_app).tabs_index)
    /\ UNCHANGED <<bufVars, sigVars, metVars, decVars, frqVars, hstVars, rndVars, monVars>>

\* Key::Right | Key::Char('\t') => app.on_right()
TabRight ==
    /\ Len(tab_calls) < MaxTabCalls
    /\ tab_app' = on_right(tab_app)
    /\ tab_calls' = Append(tab_calls, "right")
    /\ tab_indexes' = Append(tab_indexes, on_right(tab_app).tabs_index)
    /\ UNCHANGED <<bufVars, sigVars, metVars, decVars, frqVars, hstVars, rndVars, monVars>>

TabNext == TabLeft \/ TabRight

\* SocInfo of an "Apple M1": max_cpu_w, max_gpu_w, max_ane_w and their sum.
SocInfo == [max_cpu_w |-> 20, max_gpu_w |-> 20, max_ane_w |-> 8, max_package_w |-> 48]

\* An f32 from the quotient a / b, cut to the grid of 1/DEN; 0.0 / 0.0 is NaN.
Quot(a, b) == IF b = 0 THEN NaN ELSE F32((DEN * a) \div b)

RECURSIVE SumRatios(_)
SumRatios(cpus) ==
    IF Len(cpus) = 0 THEN 0 ELSE Head(cpus).active_ratio + SumRatios(Tail(cpus))

\* 100.0 * ClusterMetrics::active_ratio(): the mean of the cores' ratios.
cluster_active_percent(c) == Quot(SumRatios(c.cpus), Len(c.cpus))

\* 100.0 * freq_ratio(): (freq_mhz - min_frequency).max(0.0) / max_frequency.
freq_percent(x) ==
    LET fs == { x.dvfm_states[i] : i \in 1..Len(x.dvfm_states) }
        lo == CHOOSE f \in fs : \A g \in fs : f <= g
        hi == CHOOSE f \in fs : \A g \in fs : f >= g
    IN Quot(100 * Max(x.freq_mhz - lo, 0), hi)

record_always_inserts(hist, size, key, max, value) ==
    [k \in DOMAIN hist \cup {key} |->
        IF k = key
        THEN push(IF key \in DOMAIN hist
                  THEN [with_capacity(size, max) EXCEPT !.points = hist[key].points,
                                                        !.peak = hist[key].peak]
                  ELSE with_capacity(size, max), value)
        ELSE hist[k]]

\* history.entry(key).or_insert(Signal::with_capacity(history_size, max)).push(value)
record(hist, size, key, max, value) ==
    IF key \in DOMAIN hist
    THEN [hist EXCEPT ![key] = push(@, value)]
    ELSE [k \in DOMAIN hist \cup {key} |->
              IF k = key THEN push(with_capacity(size, max), value) ELSE hist[k]]

cpu_entries_one_name(cpu) ==
    << <<ToString(cpu.id) \o "_active_percent", F32(100 * DEN), F32(cpu.active_ratio * DEN)>>,
       <<ToString(cpu.id) \o "_active_percent", F32(100 * DEN), freq_percent(cpu)>> >>

\* The (key, max, value) triples of one core, in the order of the code.
cpu_entries(cpu) ==
    << <<ToString(cpu.id) \o "_active_percent", F32(100 * DEN), F32(cpu.active_ratio * DEN)>>,
       <<ToString(cpu.id) \o "_freq_percent", F32(100 * DEN), freq_percent(cpu)>> >>

RECURSIVE cpus_entries(_)
cpus_entries(cpus) ==
    IF Len(cpus) = 0 THEN <<>> ELSE cpu_entries(Head(cpus)) \o cpus_entries(Tail(cpus))

RECURSIVE clusters_entries(_)
clusters_entries(clusters) ==
    IF Len(clusters) = 0 THEN <<>>
    ELSE LET c == Head(clusters)
         IN << <<c.name \o "_active_percent", F32(100 * DEN), cluster_active_percent(c)>> >>
            \o cpus_entries(c.cpus) \o clusters_entries(Tail(clusters))

\* Everything update_history records for one sample, in the order of the code.
history_entries(m) ==
    clusters_entries(m.e_clusters) \o clusters_entries(m.p_clusters) \o
    << <<"gpu_active_percent", F32(100 * DEN), F32(m.rest.gpu.active_ratio * DEN)>>,
       <<"gpu_freq_percent", F32(100 * DEN), freq_percent(m.rest.gpu)>>,
       <<"ane_active_percent", F32(100 * DEN),
         Quot(100 * m.rest.consumption.ane_w, SocInfo.max_ane_w)>>,
       <<"cpu_w", F32(SocInfo.max_cpu_w * DEN), F32(m.rest.consumption.cpu_w * DEN)>>,
       <<"gpu_w", F32(SocInfo.max_gpu_w * DEN), F32(m.rest.consumption.gpu_w * DEN)>>,
       <<"ane_w", F32(SocInfo.max_ane_w * DEN), F32(m.rest.consumption.ane_w * DEN)>>,
       <<"package_w", F32(SocInfo.max_package_w * DEN), F32(m.rest.consumption.package_w * DEN)>>,
       <<"ram_usage_bytes", F32(m.memory.ram_total * DEN), F32(m.memory.ram_used * DEN)>>,
       <<"swap_usage_bytes", F32(m.memory.swap_total * DEN), F32(m.memory.swap_used * DEN)>> >>

RECURSIVE record_all(_, _, _)
record_all(hist, size, entries) ==
    IF Len(entries) = 0 THEN hist
    ELSE LET e == Head(entries)
         IN record_all(record(hist, size, e[1], e[2], e[3]), size, Tail(entries))

\* App::update_history
update_history(a, m) ==
    [a EXCEPT !.history = record_all(a.history, a.history_size, history_entries(m))]

on_metrics_no_history(a, m) == [a EXCEPT !.metrics = m]

\* App::on_metrics
on_metrics(a, m) == [update_history(a, m) EXCEPT !.metrics = m]

ui_handle_input_clears_sample(a, ev) ==
    IF ev.kind = "Metrics" THEN on_metrics(a, ev.metrics)
    ELSE IF ev.key = <<"Esc">> THEN on_key(a, "q")
    ELSE [on_key(a, ev.key[2]) EXCEPT !.metrics = NoResult]

\* The match of main_ui_loop on one event.
ui_handle(a, ev) ==
    IF ev.kind = "Metrics" THEN on_metrics(a, ev.metrics)
    ELSE IF ev.key = <<"Esc">> THEN on_key(a, "q")
    ELSE IF ev.key \in {<<"Left">>, <<"BackTab">>} THEN on_left(a)
    ELSE IF ev.key \in {<<"Right">>, <<"Char", "\t">>} THEN on_right(a)
    ELSE IF ev.key[1] = "Char" THEN on_key(a, ev.key[2])
    ELSE a

\* Bound of the renderer specification: samples handled by one App.
MaxSamples == 4

\* Samples of different topologies: one or two performance clusters, two or
\* three cores, cores numbered from 0 or from 4, idle or busy.
AppSamples ==
    { [e_clusters |-> d.e_clusters, p_clusters |-> d.p_clusters, rest |-> d.rest,
       memory |-> StreamMemory] :
        d \in { DecodedMetrics(<<CpuMetrics(0, r), CpuMetrics(1, r), CpuMetrics(2, r)>>, 1, {}, {2}) :
                    r \in {1, 7} }
           \cup { DecodedMetrics(<<CpuMetrics(0, 1), CpuMetrics(1, 7)>>, 1, {}, {}),
                  DecodedMetrics(<<CpuMetrics(4, 1), CpuMetrics(5, 7), CpuMetrics(6, 7)>>, 0, {}, {}) } }

\* The history keys the renderer looks up with .get(key).unwrap() when it
\* draws a sample: per cluster, per core, and the fixed ones.
RenderKeys(m) ==
    LET clusters == Range(m.e_clusters) \cup Range(m.p_clusters)
        cpus == UNION { Range(c.cpus) : c \in clusters }
    IN { c.name \o "_active_percent" : c \in clusters }
       \cup { ToString(cpu.id) \o "_active_percent" : cpu \in cpus }
       \cup { ToString(cpu.id) \o "_freq_percent" : cpu \in cpus }
       \cup { "cpu_w", "gpu_active_percent", "gpu_w", "ane_active_percent", "ane_w",
               "ram_usage_bytes", "swap_usage_bytes", "package_w" }

\* ui::draw: the startup screen while there is no sample, else the main
\* screen, whose lookups all succeed or the draw panics.
draw(a) ==
    IF a.metrics = NoResult THEN "startup_screen"
    ELSE IF \A k \in RenderKeys(a.metrics) : k \in DOMAIN a.history
         THEN "main_screen"
         ELSE "panic"

\* Event::Metrics(metrics) => app.on_metrics(metrics)
AppOnMetrics ==
    /\ rnd_n < MaxSamples
    /\ rnd_n' = rnd_n + 1
    /\ \E m \in AppSamples : rnd_app' = on_metrics(rnd_app, m)
    /\ UNCHANGED <<bufVars, sigVars, metVars, decVars, frqVars, hstVars, tabVars, monVars>>

RenderNext == AppOnMetrics

\* Bound of the history specification: records made on one store.
MaxRecords == 3

\* Keys, nominal maxima and values of the records of the history
\* specification (the swap maximum changes over time).
HistKeys == {"cpu_w", "swap_usage_bytes"}
HistMaxes == {F32(2 * DEN), F32(4 * DEN)}
HistValues == {F32(1 * DEN), F32(3 * DEN)}

RECURSIVE NumRecords(_)
NumRecords(first) ==
    IF DOMAIN first = {} THEN 0
    ELSE LET k == CHOOSE x \in DOMAIN first : TRUE
         IN first[k].n + NumRecords([x \in DOMAIN first \ {k} |-> first[x]])

\* One statement of update_history:
\* self.history.entry(key).or_insert(Signal::with_capacity(..)).push(value)
HistRecord ==
    /\ NumRecords(h_first) < MaxRecords
    /\ \E key \in HistKeys, max \in HistMaxes, value \in HistValues :
        /\ h_store' = record(h_store, h_size, key, max, value)
        /\ h_first' = IF key \in DOMAIN h_first
                      THEN [h_first EXCEPT ![key].n = @ + 1, ![key].last = max]
                      ELSE [k \in DOMAIN h_first \cup {key} |->
                               IF k = key THEN [max |-> max, n |-> 1, last |-> max]
                               ELSE h_first[k]]
    /\ UNCHANGED h_size
    /\ UNCHANGED <<bufVars, sigVars, metVars, decVars, frqVars, tabVars, rndVars, monVars>>

HistNext == HistRecord

line_steps_snapshot_first(line, decoded, merged, sent_ok) ==
    IF line # PLIST_END THEN <<"append_line">>
    ELSE <<"append_last_line", "finalize", "latest_metrics", "from_bytes">>
         \o (IF ~decoded THEN <<"kill">>
             ELSE <<"merge_sysinfo_metrics">>
                  \o (IF ~merged THEN <<"kill">>
                      ELSE <<"send">> \o (IF ~sent_ok THEN <<"kill">> ELSE <<>>)))

\* The body of the line loop of stream_metrics as the calls it makes, in
\* order, for a line and the outcomes of from_bytes, merge_sysinfo_metrics
\* and send.
line_steps(line, decoded, merged, sent_ok) ==
    IF line # PLIST_END THEN <<"append_line">>
    ELSE <<"append_last_line", "finalize", "from_bytes">>
         \o (IF ~decoded THEN <<"kill">>
             ELSE <<"latest_metrics", "merge_sysinfo_metrics">>
                  \o (IF ~merged THEN <<"kill">>
                      ELSE <<"send">> \o (IF ~sent_ok THEN <<"kill">> ELSE <<>>)))

\* process::Command::new(binary)...spawn().unwrap()
SmSpawn ==
    /\ sm_pc = "spawn"
    /\ \/ sm_pc' = "streaming" /\ child' = "running"
       \/ sm_pc' = "panicked" /\ child' = child
    /\ UNCHANGED <<sm_err, mode, kills, docs, keys_pc, nkeys, chan, rx_alive, ui_pc, app, sent, handled,
                   buffer>>
    /\ UNCHANGED <<doc, text, bphase, nfinal, sigVars, metVars, decVars, frqVars, hstVars, sm_line, sm_trace, tabVars, rndVars>>

\* A line other than the end marker: buffer.append_line(line).
SmLine ==
    /\ sm_pc = "streaming"
    /\ child = "running"
    /\ Len(buffer) < MaxDocLines
    /\ \E line \in StreamLines :
        /\ buffer' = append_line(buffer, line)
        /\ sm_line' = line
        /\ sm_trace' = line_steps(line, TRUE, TRUE, TRUE)
    /\ UNCHANGED <<sm_err, mode, sm_pc, child, kills, docs, keys_pc, nkeys, chan, rx_alive, ui_pc, app,
                   sent, handled>>
    /\ UNCHANGED <<doc, text, bphase, nfinal, sigVars, metVars, decVars, frqVars, hstVars, tabVars, rndVars>>

KillAndBreak_no_break(killed) ==
    /\ kills' = kills + 1
    /\ UNCHANGED <<sm_pc, child>>

\* cmd.kill().unwrap() then break: the kill is attempted; if it fails the
\* thread panics.
KillAndBreak(killed) ==
    /\ kills' = kills + 1
    /\ IF killed THEN sm_pc' = "after_loop" /\ child' = "killed"
       ELSE sm_pc' = "panicked" /\ child' = child

\* The end marker: append_last_line, finalize, decode, sysinfo snapshot,
\* merge, send.
SmEndMarker ==
    /\ sm_pc = "streaming"
    /\ child = "running"
    /\ docs < MaxDocs
    /\ docs' = docs + 1
    /\ buffer' = finalize(append_last_line(buffer, PLIST_END)).buffer
    /\ sm_line' = PLIST_END
    /\ \E decoded \in BOOLEAN, sys \in StreamSysinfo, killed \in BOOLEAN :
        LET merged == merge_sysinfo_metrics(StreamDecoded, sys) IN
        IF ~decoded \/ merged.tag # "Ok" \/ ~rx_alive
        THEN /\ KillAndBreak(killed)
             /\ sm_err' = IF ~decoded THEN "decode"
                          ELSE IF merged.tag # "Ok" THEN "merge" ELSE "send"
             /\ sm_trace' = line_steps(PLIST_END, decoded, merged.tag = "Ok", rx_alive)
             /\ UNCHANGED <<chan, sent>>
        ELSE /\ sm_trace' = line_steps(PLIST_END, TRUE, TRUE, TRUE)
             /\ chan' = send(chan, EventMetrics(merged.value, docs + 1))
             /\ sent' = Append(sent, EventMetrics(merged.value, docs + 1))
             /\ UNCHANGED <<sm_pc, child, kills, sm_err>>
    /\ UNCHANGED <<mode, keys_pc, nkeys, rx_alive, ui_pc, app, handled>>
    /\ UNCHANGED <<doc, text, bphase, nfinal, sigVars, metVars, decVars, frqVars, hstVars, tabVars, rndVars>>

\* The line iterator ends: powermetrics closed its output (it exited), or a
\* line could not be read (map_while stops at the first Err) while
\* powermetrics is still running.
SmStreamEnds ==
    /\ sm_pc = "streaming"
    /\ child = "running"
    /\ sm_pc' = "after_loop"
    /\ \/ child' = "exited" /\ sm_err' = "eof"
       \/ child' = child /\ sm_err' = "read"
    /\ UNCHANGED <<mode, kills, docs, keys_pc, nkeys, chan, rx_alive, ui_pc, app, sent, handled,
                   buffer>>
    /\ UNCHANGED <<doc, text, bphase, nfinal, sigVars, metVars, decVars, frqVars, hstVars, sm_line, sm_trace, tabVars, rndVars>>

\* cmd.try_wait().unwrap() and the return of stream_metrics.
SmTryWait ==
    /\ sm_pc = "after_loop"
    /\ \/ sm_pc' = "returned"
       \/ sm_pc' = "panicked"
    /\ UNCHANGED <<sm_err, mode, child, kills, docs, keys_pc, nkeys, chan, rx_alive, ui_pc, app, sent,
                   handled, buffer>>
    /\ UNCHANGED <<doc, text, bphase, nfinal, sigVars, metVars, decVars, frqVars, hstVars, sm_line, sm_trace, tabVars, rndVars>>

\* The stdin thread: one key read and sent; a failed send ends the thread.
KeysSend ==
    /\ keys_pc = "running"
    /\ nkeys < MaxKeys
    /\ nkeys' = nkeys + 1
    /\ \E key \in Keys :
        IF rx_alive
        THEN /\ chan' = send(chan, EventInput(key))
             /\ sent' = Append(sent, EventInput(key))
             /\ UNCHANGED keys_pc
        ELSE /\ keys_pc' = "ended"
             /\ UNCHANGED <<chan, sent>>
    /\ UNCHANGED <<sm_err, mode, sm_pc, child, kills, docs, rx_alive, ui_pc, app, handled, buffer>>
    /\ UNCHANGED <<doc, text, bphase, nfinal, sigVars, metVars, decVars, frqVars, hstVars, sm_line, sm_trace, tabVars, rndVars>>

\* stdin is at its end.
KeysEnd ==
    /\ keys_pc = "running"
    /\ keys_pc' = "ended"
    /\ UNCHANGED <<sm_err, mode, sm_pc, child, kills, docs, nkeys, chan, rx_alive, ui_pc, app, sent,
                   handled, buffer>>
    /\ UNCHANGED <<doc, text, bphase, nfinal, sigVars, metVars, decVars, frqVars, hstVars, sm_line, sm_trace, tabVars, rndVars>>

\* One turn of main_ui_loop: recv, the match, the should_quit test.
UiLoop ==
    /\ mode = "ui"
    /\ ui_pc = "running"
    /\ chan # <<>>
    /\ LET r == recv(chan)
           a == ui_handle(app, r.ev)
       IN /\ chan' = r.rest
          /\ handled' = Append(handled, r.ev)
          /\ app' = a
          /\ IF a.should_quit
             THEN ui_pc' = "quit" /\ rx_alive' = FALSE
             ELSE UNCHANGED <<ui_pc, rx_alive>>
    /\ UNCHANGED <<sm_err, mode, sm_pc, child, kills, docs, keys_pc, nkeys, sent, buffer>>
    /\ UNCHANGED <<doc, text, bphase, nfinal, sigVars, metVars, decVars, frqVars, hstVars, sm_line, sm_trace, tabVars, rndVars>>

\* One turn of main_exporter_loop: recv, export of a sample.
ExporterLoop ==
    /\ mode = "json"
    /\ ui_pc = "running"
    /\ chan # <<>>
    /\ LET r == recv(chan)
       IN /\ chan' = r.rest
          /\ handled' = Append(handled, r.ev)
    /\ UNCHANGED <<sm_err, mode, sm_pc, child, kills, docs, keys_pc, nkeys, rx_alive, ui_pc, app, sent,
                   buffer>>
    /\ UNCHANGED <<doc, text, bphase, nfinal, sigVars, metVars, decVars, frqVars, hstVars, sm_line, sm_trace, tabVars, rndVars>>

\* recv() fails: the channel is empty and both senders are gone.
RecvError ==
    /\ ui_pc = "running"
    /\ chan = <<>>
    /\ keys_pc = "ended"
    /\ sm_pc \in {"returned", "panicked"}
    /\ ui_pc' = "failed"
    /\ rx_alive' = FALSE
    /\ UNCHANGED <<sm_err, mode, sm_pc, child, kills, docs, keys_pc, nkeys, chan, app, sent, handled,
                   buffer>>
    /\ UNCHANGED <<doc, text, bphase, nfinal, sigVars, metVars, decVars, frqVars, hstVars, sm_line, sm_trace, tabVars, rndVars>>

MonitorNext ==
    \/ SmSpawn \/ SmLine \/ SmEndMarker \/ SmStreamEnds \/ SmTryWait
    \/ KeysSend \/ KeysEnd
    \/ UiLoop \/ ExporterLoop \/ RecvError

vars == <<bufVars, sigVars, metVars, decVars, frqVars, hstVars, tabVars, rndVars, monVars>>

\* Buffer::new; the other components are at rest.
BufferInit ==
    /\ buffer = <<>>
    /\ doc = <<>>
    /\ text = NoText
    /\ bphase = "lines"
    /\ nfinal = 0
    /\ capacity = 0
    /\ signal = with_capacity(0, NominalMax)
    /\ pushed = <<>>
    /\ slice = NoSlice
    /\ metrics = [e_clusters |-> <<>>, p_clusters |-> <<>>, rest |-> Rest]
    /\ sysinfo_metrics = <<>>
    /\ result = NoResult
    /\ pm_doc = IdlePlist
    /\ consumption = NoResult
    /\ rnd_app = AppNew
    /\ rnd_n = 0
    /\ tab_app = AppNew
    /\ tab_calls = <<>>
    /\ tab_indexes = <<>>
    /\ h_store = <<>>
    /\ h_size = 0
    /\ h_first = <<>>
    /\ fr_cpu = CpuMetrics(0, 7)
    /\ fr_ratio = NoResult
    /\ mode = "ui"
    /\ sm_pc = "spawn"
    /\ child = "none"
    /\ kills = 0
    /\ docs = 0
    /\ sm_err = "none"
    /\ sm_line = NoText
    /\ sm_trace = <<>>
    /\ keys_pc = "running"
    /\ nkeys = 0
    /\ chan = <<>>
    /\ rx_alive = TRUE
    /\ ui_pc = "running"
    /\ app = [should_quit |-> FALSE, tabs_index |-> 0, metrics |-> NoResult,
              history |-> <<>>, history_size |-> HistorySize]
    /\ sent = <<>>
    /\ handled = <<>>

\* Signal::with_capacity(history_size, max); --history-size is any usize.
SignalInit ==
    /\ capacity \in 0..MaxCapacity
    /\ signal = with_capacity(capacity, NominalMax)
    /\ pushed = <<>>
    /\ slice = NoSlice
    /\ buffer = <<>>
    /\ doc = <<>>
    /\ text = NoText
    /\ bphase = "lines"
    /\ nfinal = 0
    /\ metrics = [e_clusters |-> <<>>, p_clusters |-> <<>>, rest |-> Rest]
    /\ sysinfo_metrics = <<>>
    /\ result = NoResult
    /\ pm_doc = IdlePlist
    /\ consumption = NoResult
    /\ rnd_app = AppNew
    /\ rnd_n = 0
    /\ tab_app = AppNew
    /\ tab_calls = <<>>
    /\ tab_indexes = <<>>
    /\ h_store = <<>>
    /\ h_size = 0
    /\ h_first = <<>>
    /\ fr_cpu = CpuMetrics(0, 7)
    /\ fr_ratio = NoResult
    /\ mode = "ui"
    /\ sm_pc = "spawn"
    /\ child = "none"
    /\ kills = 0
    /\ docs = 0
    /\ sm_err = "none"
    /\ sm_line = NoText
    /\ sm_trace = <<>>
    /\ keys_pc = "running"
    /\ nkeys = 0
    /\ chan = <<>>
    /\ rx_alive = TRUE
    /\ ui_pc = "running"
    /\ app = [should_quit |-> FALSE, tabs_index |-> 0, metrics |-> NoResult,
              history |-> <<>>, history_size |-> HistorySize]
    /\ sent = <<>>
    /\ handled = <<>>

\* A decoded Metrics and a secondary list, before the reconciliation.
MetricsInit ==
    /\ \E cpus \in SeqsUpTo({ CpuMetrics(id, r) : id \in CpuIds, r \in PmRatios }, MaxCpus) :
       \E ne \in 0..Len(cpus) :
       \E cutsE \in SUBSET (1..(ne - 1)), cutsP \in SUBSET ((ne + 1)..(Len(cpus) - 1)) :
           /\ Cardinality(cutsE) < MaxClusters
           /\ Cardinality(cutsP) < MaxClusters
           /\ metrics = DecodedMetrics(cpus, ne, cutsE, cutsP)
    /\ sysinfo_metrics \in SysinfoCpuLists
    /\ result = NoResult
    /\ pm_doc = IdlePlist
    /\ consumption = NoResult
    /\ rnd_app = AppNew
    /\ rnd_n = 0
    /\ tab_app = AppNew
    /\ tab_calls = <<>>
    /\ tab_indexes = <<>>
    /\ h_store = <<>>
    /\ h_size = 0
    /\ h_first = <<>>
    /\ fr_cpu = CpuMetrics(0, 7)
    /\ fr_ratio = NoResult
    /\ buffer = <<>>
    /\ doc = <<>>
    /\ text = NoText
    /\ bphase = "lines"
    /\ nfinal = 0
    /\ capacity = 0
    /\ signal = with_capacity(0, NominalMax)
    /\ pushed = <<>>
    /\ slice = NoSlice
    /\ mode = "ui"
    /\ sm_pc = "spawn"
    /\ child = "none"
    /\ kills = 0
    /\ docs = 0
    /\ sm_err = "none"
    /\ sm_line = NoText
    /\ sm_trace = <<>>
    /\ keys_pc = "running"
    /\ nkeys = 0
    /\ chan = <<>>
    /\ rx_alive = TRUE
    /\ ui_pc = "running"
    /\ app = [should_quit |-> FALSE, tabs_index |-> 0, metrics |-> NoResult,
              history |-> <<>>, history_size |-> HistorySize]
    /\ sent = <<>>
    /\ handled = <<>>

\* run(): App::new and start_event_threads.
MonitorInit ==
    /\ mode \in {"ui", "json"}
    /\ sm_pc = "spawn"
    /\ child = "none"
    /\ kills = 0
    /\ docs = 0
    /\ sm_err = "none"
    /\ sm_line = NoText
    /\ sm_trace = <<>>
    /\ keys_pc = "running"
    /\ nkeys = 0
    /\ chan = <<>>
    /\ rx_alive = TRUE
    /\ ui_pc = "running"
    /\ app = [should_quit |-> FALSE, tabs_index |-> 0, metrics |-> NoResult,
              history |-> <<>>, history_size |-> HistorySize]
    /\ sent = <<>>
    /\ handled = <<>>
    /\ buffer = <<>>
    /\ doc = <<>>
    /\ text = NoText
    /\ bphase = "lines"
    /\ nfinal = 0
    /\ capacity = 0
    /\ signal = with_capacity(0, NominalMax)
    /\ pushed = <<>>
    /\ slice = NoSlice
    /\ metrics = [e_clusters |-> <<>>, p_clusters |-> <<>>, rest |-> Rest]
    /\ sysinfo_metrics = <<>>
    /\ result = NoResult
    /\ pm_doc = IdlePlist
    /\ consumption = NoResult
    /\ rnd_app = AppNew
    /\ rnd_n = 0
    /\ tab_app = AppNew
    /\ tab_calls = <<>>
    /\ tab_indexes = <<>>
    /\ h_store = <<>>
    /\ h_size = 0
    /\ h_first = <<>>
    /\ fr_cpu = CpuMetrics(0, 7)
    /\ fr_ratio = NoResult

\* A decoded document before its conversion.
FromInit ==
    /\ buffer = <<>>
    /\ doc = <<>>
    /\ text = NoText
    /\ bphase = "lines"
    /\ nfinal = 0
    /\ capacity = 0
    /\ signal = with_capacity(0, NominalMax)
    /\ pushed = <<>>
    /\ slice = NoSlice
    /\ metrics = [e_clusters |-> <<>>, p_clusters |-> <<>>, rest |-> Rest]
    /\ sysinfo_metrics = <<>>
    /\ result = NoResult
    /\ pm_doc \in { Plist(ns, cpu, gpu, ane, pkg) :
                 ns \in ElapsedNs, cpu \in EnergiesMj, gpu \in EnergiesMj,
                 ane \in EnergiesMj, pkg \in PackagesMw }
    /\ consumption = NoResult
    /\ rnd_app = AppNew
    /\ rnd_n = 0
    /\ tab_app = AppNew
    /\ tab_calls = <<>>
    /\ tab_indexes = <<>>
    /\ h_store = <<>>
    /\ h_size = 0
    /\ h_first = <<>>
    /\ fr_cpu = CpuMetrics(0, 7)
    /\ fr_ratio = NoResult
    /\ mode = "ui"
    /\ sm_pc = "spawn"
    /\ child = "none"
    /\ kills = 0
    /\ docs = 0
    /\ sm_err = "none"
    /\ sm_line = NoText
    /\ sm_trace = <<>>
    /\ keys_pc = "running"
    /\ nkeys = 0
    /\ chan = <<>>
    /\ rx_alive = TRUE
    /\ ui_pc = "running"
    /\ app = [should_quit |-> FALSE, tabs_index |-> 0, metrics |-> NoResult,
              history |-> <<>>, history_size |-> HistorySize]
    /\ sent = <<>>
    /\ handled = <<>>

\* A core as decoded, before freq_ratio() is called on it.
FreqInit ==
    /\ buffer = <<>>
    /\ doc = <<>>
    /\ text = NoText
    /\ bphase = "lines"
    /\ nfinal = 0
    /\ capacity = 0
    /\ signal = with_capacity(0, NominalMax)
    /\ pushed = <<>>
    /\ slice = NoSlice
    /\ metrics = [e_clusters |-> <<>>, p_clusters |-> <<>>, rest |-> Rest]
    /\ sysinfo_metrics = <<>>
    /\ result = NoResult
    /\ pm_doc = IdlePlist
    /\ consumption = NoResult
    /\ rnd_app = AppNew
    /\ rnd_n = 0
    /\ tab_app = AppNew
    /\ tab_calls = <<>>
    /\ tab_indexes = <<>>
    /\ h_store = <<>>
    /\ h_size = 0
    /\ h_first = <<>>
    /\ fr_cpu \in { [CpuMetrics(0, 7) EXCEPT !.freq_mhz = f, !.dvfm_states = ds] :
                     f \in CurrentFreqs, ds \in SeqsUpTo(StateFreqs, MaxStates) }
    /\ fr_ratio = NoResult
    /\ mode = "ui"
    /\ sm_pc = "spawn"
    /\ child = "none"
    /\ kills = 0
    /\ docs = 0
    /\ sm_err = "none"
    /\ sm_line = NoText
    /\ sm_trace = <<>>
    /\ keys_pc = "running"
    /\ nkeys = 0
    /\ chan = <<>>
    /\ rx_alive = TRUE
    /\ ui_pc = "running"
    /\ app = [should_quit |-> FALSE, tabs_index |-> 0, metrics |-> NoResult,
              history |-> <<>>, history_size |-> HistorySize]
    /\ sent = <<>>
    /\ handled = <<>>

\* App::new(soc_info, colors, history_size): an empty store; --history-size is any usize.
HistInit ==
    /\ buffer = <<>>
    /\ doc = <<>>
    /\ text = NoText
    /\ bphase = "lines"
    /\ nfinal = 0
    /\ capacity = 0
    /\ signal = with_capacity(0, NominalMax)
    /\ pushed = <<>>
    /\ slice = NoSlice
    /\ metrics = [e_clusters |-> <<>>, p_clusters |-> <<>>, rest |-> Rest]
    /\ sysinfo_metrics = <<>>
    /\ result = NoResult
    /\ pm_doc = IdlePlist
    /\ consumption = NoResult
    /\ rnd_app = AppNew
    /\ rnd_n = 0
    /\ tab_app = AppNew
    /\ tab_calls = <<>>
    /\ tab_indexes = <<>>
    /\ h_store = <<>>
    /\ h_size \in 0..MaxCapacity
    /\ h_first = <<>>
    /\ fr_cpu = CpuMetrics(0, 7)
    /\ fr_ratio = NoResult
    /\ mode = "ui"
    /\ sm_pc = "spawn"
    /\ child = "none"
    /\ kills = 0
    /\ docs = 0
    /\ sm_err = "none"
    /\ sm_line = NoText
    /\ sm_trace = <<>>
    /\ keys_pc = "running"
    /\ nkeys = 0
    /\ chan = <<>>
    /\ rx_alive = TRUE
    /\ ui_pc = "running"
    /\ app = [should_quit |-> FALSE, tabs_index |-> 0, metrics |-> NoResult,
              history |-> <<>>, history_size |-> HistorySize]
    /\ sent = <<>>
    /\ handled = <<>>

\* App::new: TabsState::new(titles) selects index 0.
TabInit ==
    /\ buffer = <<>>
    /\ doc = <<>>
    /\ text = NoText
    /\ bphase = "lines"
    /\ nfinal = 0
    /\ capacity = 0
    /\ signal = with_capacity(0, NominalMax)
    /\ pushed = <<>>
    /\ slice = NoSlice
    /\ metrics = [e_clusters |-> <<>>, p_clusters |-> <<>>, rest |-> Rest]
    /\ sysinfo_metrics = <<>>
    /\ result = NoResult
    /\ pm_doc = IdlePlist
    /\ consumption = NoResult
    /\ rnd_app = AppNew
    /\ rnd_n = 0
    /\ tab_app = AppNew
    /\ tab_calls = <<>>
    /\ tab_indexes = <<>>
    /\ h_store = <<>>
    /\ h_size = 0
    /\ h_first = <<>>
    /\ fr_cpu = CpuMetrics(0, 7)
    /\ fr_ratio = NoResult
    /\ mode = "ui"
    /\ sm_pc = "spawn"
    /\ child = "none"
    /\ kills = 0
    /\ docs = 0
    /\ sm_err = "none"
    /\ sm_line = NoText
    /\ sm_trace = <<>>
    /\ keys_pc = "running"
    /\ nkeys = 0
    /\ chan = <<>>
    /\ rx_alive = TRUE
    /\ ui_pc = "running"
    /\ app = [should_quit |-> FALSE, tabs_index |-> 0, metrics |-> NoResult,
              history |-> <<>>, history_size |-> HistorySize]
    /\ sent = <<>>
    /\ handled = <<>>

\* App::new: metrics is None and the history is empty.
RenderInit ==
    /\ buffer = <<>>
    /\ doc = <<>>
    /\ text = NoText
    /\ bphase = "lines"
    /\ nfinal = 0
    /\ capacity = 0
    /\ signal = with_capacity(0, NominalMax)
    /\ pushed = <<>>
    /\ slice = NoSlice
    /\ metrics = [e_clusters |-> <<>>, p_clusters |-> <<>>, rest |-> Rest]
    /\ sysinfo_metrics = <<>>
    /\ result = NoResult
    /\ pm_doc = IdlePlist
    /\ consumption = NoResult
    /\ rnd_app = AppNew
    /\ rnd_n = 0
    /\ tab_app = AppNew
    /\ tab_calls = <<>>
    /\ tab_indexes = <<>>
    /\ h_store = <<>>
    /\ h_size = 0
    /\ h_first = <<>>
    /\ fr_cpu = CpuMetrics(0, 7)
    /\ fr_ratio = NoResult
    /\ mode = "ui"
    /\ sm_pc = "spawn"
    /\ child = "none"
    /\ kills = 0
    /\ docs = 0
    /\ sm_err = "none"
    /\ sm_line = NoText
    /\ sm_trace = <<>>
    /\ keys_pc = "running"
    /\ nkeys = 0
    /\ chan = <<>>
    /\ rx_alive = TRUE
    /\ ui_pc = "running"
    /\ app = [should_quit |-> FALSE, tabs_index |-> 0, metrics |-> NoResult,
              history |-> <<>>, history_size |-> HistorySize]
    /\ sent = <<>>
    /\ handled = <<>>

SpecBuffer == BufferInit /\ [][BufferNext]_vars

SpecSignal == SignalInit /\ [][SignalNext]_vars

SpecMetrics == MetricsInit /\ [][MetricsNext]_vars

SpecFrom == FromInit /\ [][FromNext]_vars

SpecFreq == FreqInit /\ [][FreqNext]_vars

SpecHistory == HistInit /\ [][HistNext]_vars

SpecTabs == TabInit /\ [][TabNext]_vars

SpecRender == RenderInit /\ [][RenderNext]_vars

Spec == MonitorInit /\ [][MonitorNext]_vars

----------------------------------------------------------------------------
(* Claims about the Buffer (SpecBuffer) *)

Max2Set(S) == CHOOSE x \in S : \A y \in S : y <= x

\* The lines of d that lie among the 10 most recently stored ones.
WindowOf(d) == { i \in 1..Len(d) : i > Len(d) - 10 }

DefectiveIn(d) == { i \in WindowOf(d) : StartsWith(d[i], IDLE_RATIO_KEY) }

\* The documents C1 speaks of: the end marker comes last, only the first
\* line may start with a NUL (one of them), and exactly one line of the
\* window is the defective `<key>idle_ratio</key>` line.
C1Covered(d) ==
    /\ Len(d) >= 2
    /\ d[Len(d)] = PLIST_END
    /\ \A i \in 2..Len(d) : ~StartsWith(d[i], <<NUL>>)
    /\ ~StartsWith(d[1], <<NUL, NUL>>)
    /\ Cardinality(DefectiveIn(d)) = 1

\* The clean document: the defective line left out, the stray byte dropped.
CleanDoc(d) ==
    LET bad == CHOOSE i \in DefectiveIn(d) : TRUE
        first == IF StartsWith(d[1], <<NUL>>) THEN Tail(d[1]) ELSE d[1]
    IN RemoveAt([d EXCEPT ![1] = first], bad)

\* C1: for a document appended line by line and ended by append_last_line,
\* whose first line may start with a NUL and which has one defective
\* idle_ratio line among the 10 most recent lines, finalize() returns the
\* clean document joined by "\n", whatever the position of the defective line.
C1_FramingRoundTrip ==
    (bphase = "final" /\ C1Covered(doc)) => text = join(CleanDoc(doc))

\* A finalized document of more than 10 lines with a NUL in front of its
\* first line and the defective line at the far end of the window.
C1_Witness ==
    /\ bphase = "final"
    /\ C1Covered(doc)
    /\ Len(doc) >= 11
    /\ StartsWith(doc[1], <<NUL>>)
    /\ DefectiveIn(doc) = {Len(doc) - 9}

RECURSIVE SplitLines(_)
\* The lines of a text joined by "\n".
SplitLines(t) ==
    IF \A i \in 1..Len(t) : t[i] # NL THEN <<t>>
    ELSE LET k == CHOOSE i \in 1..Len(t) : t[i] = NL /\ \A j \in 1..(i - 1) : t[j] # NL
         IN <<SubSeq(t, 1, k - 1)>> \o SplitLines(SubSeq(t, k + 1, Len(t)))

\* The lines of d older than the 10 most recently stored ones.
OlderThanWindow(d) == { i \in 1..Len(d) : i <= Len(d) - 10 }

\* C13: append_last_line removes no line that lies outside the 10 most
\* recently stored lines (end marker included): after it every older line is
\* still stored at its place, and a line that looks like the defective
\* idle_ratio line but is older than the window is still at its place in
\* the text finalize() returns.
C13_BoundedRepairWindow ==
    /\ bphase = "last" =>
          \A i \in OlderThanWindow(doc) :
              ~StartsWith(doc[i], <<NUL>>) => (i <= Len(buffer) /\ buffer[i] = doc[i])
    /\ bphase = "final" =>
          \A i \in OlderThanWindow(doc) :
              StartsWith(doc[i], IDLE_RATIO_KEY) =>
                  (i <= Len(SplitLines(text)) /\ SplitLines(text)[i] = doc[i])

\* A finalized document of 12 lines whose second line looks defective and
\* is older than the window, with no such line inside the window.
C13_Witness ==
    /\ bphase = "final"
    /\ Len(doc) = 12
    /\ StartsWith(doc[2], IDLE_RATIO_KEY)
    /\ DefectiveIn(doc) = {}
    /\ Len(SplitLines(text)) = 12

\* The lines of d as stored before the scan of append_last_line: every line
\* but the last went through append_line.
StoredLines(d) ==
    [i \in 1..Len(d) |->
        IF i < Len(d) /\ StartsWith(d[i], <<NUL>>) THEN trim_start_nul(d[i]) ELSE d[i]]

\* The stored lines of the window that begin with the defective marker.
MatchesIn(b) == { i \in WindowOf(b) : StartsWith(b[i], IDLE_RATIO_KEY) }

\* C23: a call of append_last_line removes at most one line: with several
\* lines among the 10 most recently stored ones beginning with the marker,
\* the lines left are the stored ones without the match nearest to the
\* end; with none, they are the stored ones with the end marker appended.
C23_SingleRemoval ==
    bphase = "last" =>
        LET b == StoredLines(doc)
        IN /\ Len(buffer) >= Len(b) - 1
           /\ IF MatchesIn(b) = {} THEN buffer = b
              ELSE buffer = RemoveAt(b, Max2Set(MatchesIn(b)))

\* Two matching lines inside the window, one line removed.
C23_Witness ==
    /\ bphase = "last"
    /\ Cardinality(MatchesIn(StoredLines(doc))) = 2
    /\ Len(buffer) = Len(doc) - 1
    /\ Cardinality(MatchesIn(buffer)) = 1

\* C24 as stated: append_last_line removes a line only if its whole content
\* is the marker; a line that begins with the marker and goes on is kept.
C24_ExactMarkerMatch ==
    bphase = "last" =>
        LET b == StoredLines(doc)
        IN \/ buffer = b
           \/ \E i \in WindowOf(b) : b[i] = IDLE_RATIO_KEY /\ buffer = RemoveAt(b, i)

\* C24 amended: append_last_line removes a line only if the line begins
\* with the marker, whatever follows it on the line; a line of the window
\* that holds the marker text elsewhere than at its beginning is kept.
C24_MarkerPrefixMatch ==
    bphase = "last" =>
        LET b == StoredLines(doc)
        IN \/ buffer = b
           \/ \E i \in WindowOf(b) :
                  StartsWith(b[i], IDLE_RATIO_KEY) /\ buffer = RemoveAt(b, i)

\* The line removed is the marker followed by its value, and a line with the
\* marker in its middle stays in the window.
C24_Witness ==
    /\ bphase = "last"
    /\ Len(buffer) = Len(doc) - 1
    /\ \E i \in WindowOf(doc) : doc[i] = IDLE_RATIO_KEY \o <<"r">>
    /\ \E i \in WindowOf(buffer) : buffer[i] = <<"a">> \o IDLE_RATIO_KEY

\* C14: append_line strips a leading NUL only from the first line appended
\* since construction or since the last finalize, and strips exactly one
\* byte; every other line, a later line that starts with NUL included, and
\* the rest of a first line that starts with several NULs, is stored verbatim.
C14_NulStripping ==
    (bphase = "lines" /\ Len(doc) >= 1) =>
        LET line == doc[Len(doc)]
        IN /\ Len(buffer) = Len(doc)
           /\ buffer[Len(buffer)] =
                  IF Len(doc) = 1 /\ StartsWith(line, <<NUL>>) THEN Tail(line) ELSE line

RECURSIVE AppendAll(_, _)
\* The lines of d handed to a Buffer one after another, the last one to
\* append_last_line.
AppendAll(buf, d) ==
    IF Len(d) = 0 THEN buf
    ELSE IF Len(d) = 1 THEN append_last_line(buf, d[1])
    ELSE AppendAll(append_line(buf, Head(d)), Tail(d))

\* C15: after finalize() the Buffer holds no lines, and the text returned
\* for a document, whatever documents the same Buffer processed before it,
\* is the text a new Buffer returns for that document's lines alone.
C15_AssemblerReuse ==
    bphase = "final" =>
        /\ buffer = <<>>
        /\ text = finalize(AppendAll(<<>>, doc)).plist

\* The second document finalized on the same Buffer, with a stray NUL and a
\* defective line of its own.
C15_Witness ==
    /\ bphase = "final"
    /\ nfinal = 2
    /\ Len(doc) >= 3
    /\ StartsWith(doc[1], <<NUL>>)
    /\ DefectiveIn(doc) # {}

----------------------------------------------------------------------------
(* Claims about the Signal (SpecSignal) *)

Points == signal.points.items

RECURSIVE MapToU64(_)
MapToU64(vs) ==
    IF Len(vs) = 0 THEN <<>> ELSE <<to_u64_or_0(Head(vs))>> \o MapToU64(Tail(vs))

\* The last k elements of s (all of s when it is shorter).
LastK(s, k) == SubSeq(s, Len(s) - Min(k, Len(s)) + 1, Len(s))

HasNaN(vs) == \E i \in 1..Len(vs) : vs[i].nan

\* C5: for every configured capacity C and after any sequence of pushes, the
\* number of stored points never exceeds C.
C5_LengthWithinCapacity == Len(Points) <= capacity

\* C6: once more than C values have been pushed, the stored points are
\* exactly the last C pushed values (as stored, i.e. converted to u64),
\* oldest first.
C6_LastCValues ==
    Len(pushed) > capacity => Points = LastK(MapToU64(pushed), capacity)

MaxWithZero(vs) ==
    LET nums == {0} \cup { vs[i].v : i \in 1..Len(vs) }
    IN F32(CHOOSE m \in nums : \A k \in nums : k <= m)

C8_WindowQuery ==
    slice # NoSlice =>
        /\ slice.out # PANIC
        /\ slice.out = LastK(Points, slice.n)
        /\ (slice.n > Len(Points) => slice.out = Points)

\* A query on a series that has evicted points, for fewer points than
\* stored, and one for more points than stored.
C8_Witness ==
    /\ slice # NoSlice
    /\ capacity = 3
    /\ Len(pushed) > capacity
    /\ slice.n = 2
    /\ Len(slice.out) = 2

\* C30: after any sequence of push calls peak is greater than or equal to
\* every point currently stored (the pushed values converted to u64), and
\* peak is never below zero.
C30_PeakBoundsPoints ==
    /\ ~signal.peak.nan
    /\ signal.peak.v >= 0
    /\ \A i \in 1..Len(signal.points.items) :
          signal.peak.v >= signal.points.items[i] * DEN

----------------------------------------------------------------------------
(* Claims about the reconciliation (SpecMetrics) *)

RECURSIVE FlatCpus(_)
FlatCpus(clusters) ==
    IF Len(clusters) = 0 THEN <<>> ELSE Head(clusters).cpus \o FlatCpus(Tail(clusters))

\* The cores in walking order: efficiency clusters first, then performance.
Cores(m) == FlatCpus(m.e_clusters) \o FlatCpus(m.p_clusters)

Called == result # NoResult

SameCount == Len(Cores(metrics)) = Len(sysinfo_metrics)

\* The positions at which the two sources name different cores.
Mismatches == { j \in 1..Len(sysinfo_metrics) : Cores(metrics)[j].id # sysinfo_metrics[j].id }

FirstMismatch == CHOOSE k \in Mismatches : \A j \in Mismatches : k <= j

\* C2: when the number of cores of all clusters differs from the number of
\* entries of the secondary list, the call returns MisalignedCpuId and no
\* active ratio has been overwritten: the caller gets no Metrics at all and
\* the value the function held is the decoded one.
C2_CountMismatch ==
    (Called /\ ~SameCount) =>
        /\ result.tag = "Err"
        /\ result.err = MisalignedCpuId("count", Len(Cores(metrics)), Len(sysinfo_metrics))
        /\ result.value = NoResult
        /\ result.self = metrics

\* Fewer secondary entries than cores, and the entries there are agree with
\* the cores they would be matched with.
C2_Witness ==
    /\ Called
    /\ Len(sysinfo_metrics) >= 1
    /\ Len(Cores(metrics)) > Len(sysinfo_metrics)
    /\ \A j \in 1..Len(sysinfo_metrics) : Cores(metrics)[j].id = sysinfo_metrics[j].id
    /\ result.tag = "Err"

\* C3: with equal counts and the first differing identifier at position k,
\* the call returns MisalignedCpuId naming the two identifiers of position k,
\* and no core at a position after k is merged.
C3_IdMismatch ==
    (Called /\ SameCount /\ Mismatches # {}) =>
        LET k == FirstMismatch IN
        /\ result.tag = "Err"
        /\ result.err = MisalignedCpuId("id", Cores(metrics)[k].id, sysinfo_metrics[k].id)
        /\ result.value = NoResult
        /\ \A j \in (k + 1)..Len(sysinfo_metrics) :
               Cores(result.self)[j] = Cores(metrics)[j]

\* The first mismatch is in the middle of three cores: one core before it,
\* one after it whose identifiers agree.
C3_Witness ==
    /\ Called /\ SameCount
    /\ Len(sysinfo_metrics) = 3
    /\ Mismatches = {2}
    /\ result.tag = "Err"

\* C4: with equal counts and identical identifier sequences the call
\* succeeds and every core of the result carries the secondary source's
\* ratio for its position; none keeps the decoded ratio.
C4_Success ==
    (Called /\ SameCount /\ Mismatches = {}) =>
        /\ result.tag = "Ok"
        /\ Len(Cores(result.value)) = Len(sysinfo_metrics)
        /\ \A j \in 1..Len(sysinfo_metrics) :
               /\ Cores(result.value)[j].id = sysinfo_metrics[j].id
               /\ Cores(result.value)[j].active_ratio = sysinfo_metrics[j].active_ratio
               /\ Cores(result.value)[j].active_ratio \notin PmRatios

\* Three cores over efficiency and performance clusters, merged with
\* ratios that are not all the same.
C4_Witness ==
    /\ Called /\ result.tag = "Ok"
    /\ Len(sysinfo_metrics) = 3
    /\ Len(FlatCpus(metrics.e_clusters)) >= 1
    /\ Len(FlatCpus(metrics.p_clusters)) >= 1
    /\ \E i, j \in 1..3 : sysinfo_metrics[i].active_ratio # sysinfo_metrics[j].active_ratio

\* m with every per-core active ratio blanked.
WithoutRatios(m) ==
    LET Cpus(cpus) == [j \in 1..Len(cpus) |-> [cpus[j] EXCEPT !.active_ratio = 0]]
        Cls(cs) == [i \in 1..Len(cs) |-> [cs[i] EXCEPT !.cpus = Cpus(cs[i].cpus)]]
    IN [m EXCEPT !.e_clusters = Cls(m.e_clusters), !.p_clusters = Cls(m.p_clusters)]

\* C16: on success set_cpus_active_ratio changes only the per-core active
\* ratios: cluster names and order, core identifiers and order, core and
\* cluster frequencies, frequency states, GPU metrics, power consumption and
\* thermal pressure of the returned value are those of the value given.
C16_ReconciliationFrame ==
    (Called /\ result.tag = "Ok") =>
        /\ WithoutRatios(result.value) = WithoutRatios(metrics)
        /\ result.value.rest = metrics.rest

\* A success over two efficiency clusters and a performance cluster in
\* which ratios did change.
C16_Witness ==
    /\ Called
    /\ result.tag = "Ok"
    /\ Len(metrics.e_clusters) = 2
    /\ Len(metrics.p_clusters) = 1
    /\ result.value # metrics

----------------------------------------------------------------------------
(* Claims about the conversion of a decoded document (SpecFrom) *)

----------------------------------------------------------------------------
(* Claims about the frequency ratio (SpecFreq) *)

\* An f64 quotient that is a number of [0, 1]; one that is 0.
InUnit(r) == r # UNWRAP_PANIC /\ ~r.nan /\ ~r.inf /\ 0 <= r.num /\ r.num <= r.den
IsZero(r) == r # UNWRAP_PANIC /\ ~r.nan /\ ~r.inf /\ r.num = 0

\* C21: for a core with a non-empty list of frequency states, freq_ratio()
\* lies in [0, 1] for every current frequency within [min_state, max_state]
\* and is 0, never negative, for a current frequency below min_state.
C21_FreqRatioBounds ==
    (fr_ratio # NoResult /\ Len(fr_cpu.dvfm_states) > 0) =>
        LET lo == min_frequency(fr_cpu)
            hi == max_frequency(fr_cpu)
        IN /\ (lo <= fr_cpu.freq_mhz /\ fr_cpu.freq_mhz <= hi) => InUnit(fr_ratio)
           /\ fr_cpu.freq_mhz < lo => IsZero(fr_ratio)

----------------------------------------------------------------------------
(* Claims about the history store (SpecHistory) *)

\* C22: a series exists for exactly the keys recorded so far and has the
\* nominal maximum given at its first record; a series is created by the
\* first record of its key, as a new series of the store's configured
\* capacity and the given maximum with one point pushed; a later record of a
\* key only appends a point (the oldest one leaving a full series) and
\* changes neither the maximum nor the capacity, whatever maximum it
\* passes; a record leaves the other series alone; no series is removed.
C22_LazySeriesCreation ==
    /\ [](DOMAIN h_store = DOMAIN h_first)
    /\ [](\A k \in DOMAIN h_store : h_store[k].max = h_first[k].max)
    /\ [][\A k \in DOMAIN h_store' \ DOMAIN h_store :
             \E v \in HistValues :
                 h_store'[k] = push(with_capacity(h_size, h_first'[k].max), v)]_vars
    /\ [][\A k \in DOMAIN h_store :
             /\ k \in DOMAIN h_store'
             /\ h_store'[k].max = h_store[k].max
             /\ h_store'[k].points.cap = h_store[k].points.cap
             /\ IF h_first'[k].n = h_first[k].n
                THEN h_store'[k] = h_store[k]
                ELSE LET old == h_store[k].points.items
                         kept == IF Len(old) = h_store[k].points.cap THEN Tail(old) ELSE old
                     IN \E v \in HistValues :
                            h_store'[k].points.items = Append(kept, to_u64_or_0(v))]_vars

\* Two series; the swap series was recorded twice, the second time with
\* another nominal maximum than the first.
C22_Witness ==
    /\ DOMAIN h_store = HistKeys
    /\ h_first["swap_usage_bytes"].n = 2
    /\ h_first["swap_usage_bytes"].last # h_first["swap_usage_bytes"].max
    /\ h_size >= 1

----------------------------------------------------------------------------
(* Claims about the sampling loop and the event loop (Spec) *)

\* The document numbers of the samples among evs, in order.
RECURSIVE SampleDocs(_)
SampleDocs(evs) ==
    IF Len(evs) = 0 THEN <<>>
    ELSE (IF Head(evs).kind = "Metrics" THEN <<Head(evs).doc>> ELSE <<>>)
         \o SampleDocs(Tail(evs))

Increasing(ns) == \A i, j \in 1..Len(ns) : i < j => ns[i] < ns[j]

\* C9: the consumer handles the events one at a time in the order they were
\* enqueued, none twice and none out of place (what was enqueued is what
\* was handled followed by what still waits), and the samples it receives
\* come in the order their end markers were read.
C9_EventOrder ==
    /\ sent = handled \o chan
    /\ Increasing(SampleDocs(handled))

\* The consumer has handled two samples and a key that was enqueued between them.
C9_Witness ==
    /\ Len(handled) >= 3
    /\ handled[1].kind = "Metrics"
    /\ handled[2].kind = "Input"
    /\ handled[3].kind = "Metrics"

\* C10: whenever the sampling loop has stopped and stream_metrics has
\* returned, a kill of the external process has been attempted.
C10_KillBeforeReturn == sm_pc = "returned" => kills >= 1

\* C11: whenever the decoding or the reconciliation of a completed document
\* has failed, an explicit error event (an event that is neither an input
\* event nor a sample) has been put on the channel for the consumer.
C11_ErrorEventOnChannel ==
    sm_err \in {"decode", "merge"} =>
        \E i \in 1..Len(sent) : sent[i].kind \notin {"Input", "Metrics"}

\* The line loop of stream_metrics was entered and has been left.
LoopTerminated ==
    \/ sm_pc \in {"after_loop", "returned"}
    \/ sm_pc = "panicked" /\ child # "none"

\* C12: the sampling loop is terminated exactly when the stream has ended or
\* a decode (an unreadable line of the current document included), a
\* reconciliation or a publish has failed; the document that failed has
\* produced no sample; and from the first such event on no line is read, no
\* end marker is processed and no sample is published.
C12_LoopTermination ==
    /\ [](LoopTerminated <=> sm_err # "none")
    /\ [](sm_err \in {"decode", "merge", "send"} =>
            \A i \in 1..Len(sent) : sent[i].kind = "Metrics" => sent[i].doc # docs)
    /\ [](sm_err = "read" =>
            \A i \in 1..Len(sent) : sent[i].kind = "Metrics" => sent[i].doc # docs + 1)
    /\ [][sm_err # "none" =>
            /\ buffer' = buffer
            /\ docs' = docs
            /\ sm_err' = sm_err
            /\ SampleDocs(sent') = SampleDocs(sent)]_vars

\* A first document was published, the second failed to reconcile and the
\* loop was left.
C12_Witness ==
    /\ sm_err = "merge"
    /\ docs = 2
    /\ SampleDocs(sent) = <<1>>
    /\ LoopTerminated

\* The observables of a sample: each cluster, two per core, and the twelve
\* of GPU, ANE, power and memory less the three per-cluster and per-core ones.
NumObservables(m) == Len(m.e_clusters) + Len(m.p_clusters) + 2 * num_cpus(m) + 9

SpawnFailed == sm_pc = "panicked" /\ child = "none"

\* The selected index before call i.
IndexBefore(i) == IF i = 1 THEN 0 ELSE tab_indexes[i - 1]

\* C28: after any sequence of on_left and on_right calls the selected index
\* is one of the four tabs, 0..3; on_right advances it by one and wraps from
\* 3 to 0, on_left takes it back by one and wraps from 0 to 3; on_left
\* directly after on_right, or on_right directly after on_left, restores
\* the index.
C28_TabIndex ==
    /\ tab_app.tabs_index \in 0..3
    /\ \A i \in 1..Len(tab_calls) :
          /\ tab_indexes[i] \in 0..3
          /\ tab_calls[i] = "right" =>
                tab_indexes[i] = IF IndexBefore(i) = 3 THEN 0 ELSE IndexBefore(i) + 1
          /\ tab_calls[i] = "left" =>
                tab_indexes[i] = IF IndexBefore(i) = 0 THEN 3 ELSE IndexBefore(i) - 1
          /\ (i >= 2 /\ tab_calls[i] # tab_calls[i - 1]) =>
                tab_indexes[i] = IndexBefore(i - 1)
    /\ Len(tab_calls) > 0 => tab_app.tabs_index = tab_indexes[Len(tab_calls)]

\* on_left on the first tab, back with on_right, then on to the last tab and
\* around to the first.
C28_Witness ==
    /\ tab_calls = <<"left", "right", "right", "right", "right", "right">>
    /\ tab_indexes = <<3, 0, 1, 2, 3, 0>>

\* C29: whenever the App's current sample is set, the history holds a
\* series with at least one point for every key the renderer derives from
\* that sample (its cluster names, its core identifiers for activity and
\* frequency, the fixed GPU, ANE, power and memory keys), so that the draw
\* never misses; this after any sequence of samples, of different cluster
\* names and core identifiers.
C29_RendererLookups ==
    /\ rnd_app.metrics # NoResult =>
          \A k \in RenderKeys(rnd_app.metrics) :
              /\ k \in DOMAIN rnd_app.history
              /\ Len(rnd_app.history[k].points.items) >= 1
    /\ draw(rnd_app) # "panic"

\* The current sample has cores 4..6 in one cluster; an earlier one had
\* cores 0..2 and a second performance cluster.
C29_Witness ==
    /\ rnd_app.metrics # NoResult
    /\ draw(rnd_app) = "main_screen"
    /\ "4_freq_percent" \in RenderKeys(rnd_app.metrics)
    /\ "P2-Cluster_active_percent" \in DOMAIN rnd_app.history \ RenderKeys(rnd_app.metrics)
    /\ "0_active_percent" \in DOMAIN rnd_app.history \ RenderKeys(rnd_app.metrics)

\* The calls of a trace other than the kill of powermetrics.
Steps(t) == SelectSeq(t, LAMBDA c : c # "kill")

StepOrder ==
    <<"append_last_line", "finalize", "from_bytes", "latest_metrics",
      "merge_sysinfo_metrics", "send">>

IsMetricsEvent(e) == e.kind = "Metrics"

\* C25: for a line that is the end marker, and for no other line, the
\* sampling loop calls append_last_line, finalize, the decoder, the
\* secondary sampler, the reconciler and the send in that order, stopping
\* after the call that failed; the secondary sampler is queried at most once
\* for a document and not at all when the decode failed; a sample is
\* published only at the end of the whole order, and as long as no end
\* marker was read nothing is finalized and no sample is published.
C25_StepOrder ==
    /\ [](sm_line # NoText =>
            IF sm_line = PLIST_END
            THEN /\ Len(Steps(sm_trace)) >= 3
                 /\ Steps(sm_trace) = SubSeq(StepOrder, 1, Len(Steps(sm_trace)))
                 /\ Cardinality({ i \in 1..Len(sm_trace) : sm_trace[i] = "latest_metrics" }) <= 1
                 /\ (sm_err = "decode" =>
                        \A i \in 1..Len(sm_trace) : sm_trace[i] # "latest_metrics")
            ELSE sm_trace = <<"append_line">>)
    /\ [](docs = 0 =>
            /\ \A i \in 1..Len(sm_trace) : sm_trace[i] # "finalize"
            /\ \A i \in 1..Len(sent) : ~IsMetricsEvent(sent[i]))
    /\ [][(Len(sent') > Len(sent) /\ IsMetricsEvent(sent'[Len(sent')]))
             => (sm_line' = PLIST_END /\ sm_trace' = StepOrder)]_vars

\* The loop has ended on a failed decode of its second document, after a
\* first document went through the whole order and was published.
C25_Witness ==
    /\ sm_err = "decode"
    /\ docs = 2
    /\ sm_trace = <<"append_last_line", "finalize", "from_bytes", "kill">>
    /\ \E i \in 1..Len(sent) : IsMetricsEvent(sent[i])

\* C26: when the kill of powermetrics after a decode, reconcile or publish
\* failure fails, the sampling loop still leaves its loop normally: the
\* thread does not panic.
C26_KillFailureNotPropagated ==
    [][(sm_pc = "streaming" /\ sm_err' \in {"decode", "merge", "send"})
          => sm_pc' = "after_loop"]_vars

\* C19: when the spawn of the sampling process fails or its stdout handle is
\* missing, the run ends with an error: from then on the consumer handles
\* no further event and does not go on running or end normally, it can
\* only end with an error.
C19_StartupFailureIsFatal ==
    [][SpawnFailed => (handled' = handled /\ ui_pc' \in {ui_pc, "failed"})]_vars

\* The keys that ask to quit: Esc, 'q', 'x'.
QuitKeys == { <<"Esc">>, <<"Char", "q">>, <<"Char", "x">> }

\* C20: in the UI loop the quit flag is looked at after every handled event:
\* when it is set the consumer has returned; once set, no further event is
\* received or handled and the flag is never cleared; and the flag is set
\* only by handling an input event whose key is Esc, 'q' or 'x'.
C20_Quit ==
    /\ [](app.should_quit => (ui_pc = "quit" /\ ~rx_alive))
    /\ [][app.should_quit =>
            (app'.should_quit /\ handled' = handled /\ chan' = chan)]_vars
    /\ [][(~app.should_quit /\ app'.should_quit) =>
            /\ mode = "ui"
            /\ Len(handled') = Len(handled) + 1
            /\ handled'[Len(handled')].kind = "Input"
            /\ handled'[Len(handled')].key \in QuitKeys]_vars

\* The consumer handled a sample and the key 'a', then 'x', and returned
\* with a sample still waiting in the channel.
C20_Witness ==
    /\ app.should_quit
    /\ ui_pc = "quit"
    /\ Len(handled) = 3
    /\ handled[1].kind = "Metrics"
    /\ handled[2].key = <<"Char", "a">>
    /\ handled[3].key = <<"Char", "x">>
    /\ chan # <<>>

\* The sample of the last Metrics event among evs, NoResult without one.
LastSample(evs) ==
    LET is == { i \in 1..Len(evs) : evs[i].kind = "Metrics" }
    IN IF is = {} THEN NoResult
       ELSE evs[CHOOSE i \in is : \A j \in is : j <= i].metrics

\* The sampling loop has been left on a failed decode, reconciliation or
\* publish.
FatalStop == LoopTerminated /\ sm_err \in {"decode", "merge", "send"}

SamplePending == \E i \in 1..Len(chan) : chan[i].kind = "Metrics"

\* What C27 says of every step in UI mode, but for the steps after a fatal
\* stop: the current sample is the one received last; the sample and the
\* history change only when a Metrics event is handled; a sample is never
\* cleared; after a fatal stop the consumer leaves its loop only on a quit
\* key or when the input thread has ended too.
StaleStep ==
    /\ app'.metrics = LastSample(handled')
    /\ (app'.metrics # app.metrics \/ app'.history # app.history) =>
          /\ Len(handled') = Len(handled) + 1
          /\ handled'[Len(handled')].kind = "Metrics"
          /\ app' = on_metrics(app, handled'[Len(handled')].metrics)
    /\ app.metrics # NoResult => app'.metrics # NoResult
    /\ (FatalStop /\ ui_pc = "running" /\ ui_pc' # "running") =>
          \/ app'.should_quit
          \/ keys_pc = "ended" /\ chan = <<>>

\* C27 as stated: in UI mode the consumer holds the sample received last,
\* written by on_metrics only and never cleared, and once the sampling loop
\* has terminated on a fatal error the current sample and every history
\* series stay unchanged while the consumer keeps handling input.
C27_StaleButPresent ==
    [][mode = "ui" =>
          /\ StaleStep
          /\ FatalStop => (app'.metrics = app.metrics /\ app'.history = app.history)]_vars

\* C27 amended: the same, the current sample and the history staying
\* unchanged after the fatal stop once the samples published before it
\* have been received.
C27_StaleOnceReceived ==
    [][mode = "ui" =>
          /\ StaleStep
          /\ (FatalStop /\ ~SamplePending) =>
                (app'.metrics = app.metrics /\ app'.history = app.history)]_vars

\* The second document failed to decode and the loop has returned; the
\* consumer holds the sample of the first document, has handled a key after
\* it and is still in its loop.
C27_Witness ==
    /\ mode = "ui"
    /\ sm_err = "decode"
    /\ sm_pc = "returned"
    /\ ui_pc = "running"
    /\ chan = <<>>
    /\ Len(handled) = 2
    /\ handled[1].kind = "Metrics"
    /\ handled[2].kind = "Input"
    /\ app.metrics = handled[1].metrics
    /\ DOMAIN app.history # {}

====
